---- MODULE Spec2Model ----
(***************************************************************************)
(* api/send-email.js: the order-notification handler.  One invocation of   *)
(* handler(req, res) is modelled as a state machine whose steps are the    *)
(* synchronous stretches of code between two awaits (raw body stream,      *)
(* transporter.verify(), transporter.sendMail()).  buildHtml and           *)
(* escapeHtml are operators over a small model of JavaScript values.       *)
(***************************************************************************)
EXTENDS Integers, Sequences, FiniteSets, TLC

(***************************************************************************)
(* Bounds of the model.                                                    *)
(***************************************************************************)
MaxItems == 2
MaxStrLen == 2

(***************************************************************************)
(* JavaScript values.  A string is a sequence of one-character strings.    *)
(***************************************************************************)
Undef == [t |-> "undefined"]
Null == [t |-> "null"]
NaN == [t |-> "nan"]
Num(n) == [t |-> "number", n |-> n]
Str(s) == [t |-> "string", s |-> s]
Arr(a) == [t |-> "array", a |-> a]
Item(title, qty, price) == [t |-> "item", title |-> title, qty |-> qty, price |-> price]
Meta(num, name, phone, addr, id) ==
    [t |-> "meta", order_number |-> num, order_name |-> name, phone |-> phone,
     shipping_address |-> addr, id |-> id]
EmptyObj == [t |-> "object"]
ErrorObj(m) == [t |-> "error", message |-> m]

Digits == <<"0", "1", "2", "3", "4", "5", "6", "7", "8", "9">>

IsDigit(c) == \E i \in 1..10 : Digits[i] = c

DigitVal(c) == (CHOOSE i \in 1..10 : Digits[i] = c) - 1

\* JavaScript truthiness: undefined, null, NaN, 0 and "" are falsy.
Truthy(v) ==
    CASE v.t = "undefined" -> FALSE
      [] v.t = "null" -> FALSE
      [] v.t = "nan" -> FALSE
      [] v.t = "number" -> v.n # 0
      [] v.t = "string" -> Len(v.s) > 0
      [] OTHER -> TRUE

\* a || b
Or(a, b) == IF Truthy(a) THEN a ELSE b

RECURSIVE NatToChars(_)
NatToChars(n) ==
    IF n < 10 THEN <<Digits[n + 1]>>
    ELSE NatToChars(n \div 10) \o <<Digits[(n % 10) + 1]>>

RECURSIVE CharsToNat(_)
CharsToNat(s) ==
    IF Len(s) = 0 THEN 0
    ELSE 10 * CharsToNat(SubSeq(s, 1, Len(s) - 1)) + DigitVal(s[Len(s)])

Chars(lit) ==
    CASE lit = "undefined" -> <<"u", "n", "d", "e", "f", "i", "n", "e", "d">>
      [] lit = "null" -> <<"n", "u", "l", "l">>
      [] lit = "NaN" -> <<"N", "a", "N">>
      [] lit = "[object Object]" ->
            <<"[", "o", "b", "j", "e", "c", "t", " ", "O", "b", "j", "e", "c", "t", "]">>
      [] lit = " XOF" -> <<" ", "X", "O", "F">>
      [] OTHER -> << >>

RECURSIVE JoinComma(_)
\* String(v): the string conversion of a value.
RECURSIVE ToStr(_)
ToStr(v) ==
    CASE v.t = "undefined" -> Chars("undefined")
      [] v.t = "null" -> Chars("null")
      [] v.t = "nan" -> Chars("NaN")
      [] v.t = "number" -> NatToChars(v.n)
      [] v.t = "string" -> v.s
      [] v.t = "array" -> JoinComma(v.a)
      [] OTHER -> Chars("[object Object]")

\* Array.prototype.toString: the elements joined by ",", null as "".
JoinComma(a) ==
    IF Len(a) = 0 THEN << >>
    ELSE LET h == IF Head(a).t \in {"null", "undefined"} THEN << >> ELSE ToStr(Head(a))
         IN IF Len(a) = 1 THEN h ELSE h \o <<",">> \o JoinComma(Tail(a))

\* Number(v): the numeric conversion of a value (the strings of the model
\* hold no sign, point or blank; an array converts through its string form).
RECURSIVE ToNum(_)
ToNum(v) ==
    CASE v.t = "undefined" -> NaN
      [] v.t = "null" -> Num(0)
      [] v.t = "nan" -> NaN
      [] v.t = "number" -> v
      [] v.t = "string" ->
            IF \A i \in 1..Len(v.s) : IsDigit(v.s[i]) THEN Num(CharsToNat(v.s)) ELSE NaN
      [] v.t = "array" -> ToNum(Str(JoinComma(v.a)))
      [] OTHER -> NaN

\* a * b and a + b on numbers, NaN absorbing.
Mul(a, b) == IF a.t = "nan" \/ b.t = "nan" THEN NaN ELSE Num(a.n * b.n)

Add(a, b) == IF a.t = "nan" \/ b.t = "nan" THEN NaN ELSE Num(a.n + b.n)

\* v.name for a property name of an order: reading a property of null or
\* undefined throws a TypeError, a primitive has none of these properties.
CanRead(v) == v.t \notin {"undefined", "null"}

Get(v, name) == IF name \in DOMAIN v /\ name # "t" THEN v[name] ELSE Undef

(***************************************************************************)
(* escapeHtml (lines 53-55).                                               *)
(***************************************************************************)
\* A replacement table that forgets the single quote.
EscapeCharNoApostrophe(c) ==
    CASE c = "&" -> <<"&", "a", "m", "p", ";">>
      [] c = "<" -> <<"&", "l", "t", ";">>
      [] c = ">" -> <<"&", "g", "t", ";">>
      [] c = "\"" -> <<"&", "q", "u", "o", "t", ";">>
      [] OTHER -> <<c>>

EscapeChar(c) ==
    CASE c = "&" -> <<"&", "a", "m", "p", ";">>
      [] c = "<" -> <<"&", "l", "t", ";">>
      [] c = ">" -> <<"&", "g", "t", ";">>
      [] c = "\"" -> <<"&", "q", "u", "o", "t", ";">>
      [] c = "'" -> <<"&", "#", "3", "9", ";">>
      [] OTHER -> <<c>>

RECURSIVE ReplaceAll(_)
ReplaceAll(s) == IF Len(s) = 0 THEN << >> ELSE EscapeChar(Head(s)) \o ReplaceAll(Tail(s))

escapeHtml(v) == ReplaceAll(ToStr(IF v.t = "undefined" THEN Str(<< >>) ELSE v))

(***************************************************************************)
(* buildHtml (lines 24-51).  The document is the fixed template with its   *)
(* substituted slots; a thrown TypeError is the result [threw |-> TRUE].   *)
(***************************************************************************)
\* A message text is kept whole, as a string of one token.
Text(lit) == Str(<<lit>>)

TypeError(lit) == ErrorObj(Text(lit))

\* One <tr> of the table, lines 26-29.
Row(it) ==
    [title |-> escapeHtml(Or(Get(it, "title"), Str(<< >>))),
     qty |-> escapeHtml(Str(ToStr(Or(Get(it, "qty"), Num(1))))),
     price |-> escapeHtml(Str(ToStr(Or(Get(it, "price"), Str(<< >>))))) \o Chars(" XOF")]

\* One step of the reduce of line 32.
LineAmount(i) == Mul(ToNum(Or(Get(i, "price"), Num(0))), ToNum(Or(Get(i, "qty"), Num(1))))

RECURSIVE Reduce(_, _)
Reduce(s, a) == IF Len(a) = 0 THEN s ELSE Reduce(Add(s, LineAmount(Head(a))), Tail(a))

\* (items || []).reduce(..., 0), line 32.
Total(items) == Reduce(Num(0), Or(items, Arr(<< >>)).a)

buildHtml(orderMeta, items) ==
    LET list == Or(items, Arr(<< >>))
    IN IF list.t # "array"
       THEN [threw |-> TRUE, err |-> TypeError("(items || []).map is not a function")]
       ELSE IF \E k \in 1..Len(list.a) : ~CanRead(list.a[k])
       THEN [threw |-> TRUE, err |-> TypeError("Cannot read properties of null (reading 'title')")]
       ELSE IF ~CanRead(orderMeta)
       THEN [threw |-> TRUE,
             err |-> TypeError("Cannot read properties of null (reading 'order_number')")]
       ELSE [threw |-> FALSE,
             html |-> [order_number |-> escapeHtml(Or(Get(orderMeta, "order_number"), Str(<< >>))),
                       order_name |-> escapeHtml(Or(Get(orderMeta, "order_name"), Str(<< >>))),
                       phone |-> escapeHtml(Or(Get(orderMeta, "phone"), Str(<< >>))),
                       shipping_address |->
                           escapeHtml(Or(Get(orderMeta, "shipping_address"), Str(<< >>))),
                       rows |-> [k \in 1..Len(list.a) |-> Row(list.a[k])],
                       total |-> escapeHtml(Str(ToStr(Total(list)))) \o Chars(" XOF"),
                       id |-> escapeHtml(Str(ToStr(Or(Get(orderMeta, "id"), Str(<< >>)))))]]

(***************************************************************************)
(* The request body.  Object.keys(v).length, JSON.parse and the texts a    *)
(* raw stream delivers; a text is the sequence of its lexical tokens and   *)
(* a chunk is a piece of it.                                               *)
(***************************************************************************)
Body(om, its) == [t |-> "body", orderMeta |-> om, items |-> its]

\* Object.keys(v).length of a truthy v: the own enumerable keys.
KeyCount(v) ==
    CASE v.t = "string" -> Len(v.s)
      [] v.t = "array" -> Len(v.a)
      [] v.t = "number" -> 0
      [] OTHER -> Cardinality({k \in DOMAIN v \ {"t"} : v[k] # Undef})

SampleMeta == Meta(Str(<<"7">>), Str(<<"<", "b">>), Str(<<"9">>), Str(<<"&">>), Num(42))

SampleItems == Arr(<<Item(Str(<<"A">>), Num(2), Num(5)), Item(Str(<<"B">>), Num(1), Num(10))>>)

TextEmptyObject == <<"{", "}">>

TextNull == <<"null">>

TextMalformed == <<"{", "bad">>

TextOrder ==
    <<"{", "\"orderMeta\"", ":", "{", "\"order_number\"", ":", "\"7\"", "}", ",",
      "\"items\"", ":", "[", "{", "\"title\"", ":", "\"A\"", ",", "\"qty\"", ":", "2", ",",
      "\"price\"", ":", "5", "}", "]", "}">>

SyntaxError(lit) == ErrorObj(Text(lit))

\* JSON.parse(text): the value, or the SyntaxError thrown.
JSONparse(text) ==
    CASE text = TextEmptyObject -> [threw |-> FALSE, value |-> EmptyObj]
      [] text = TextNull -> [threw |-> FALSE, value |-> Null]
      [] text = TextOrder ->
            [threw |-> FALSE,
             value |-> Body([t |-> "meta", order_number |-> Str(<<"7">>)],
                            Arr(<<Item(Str(<<"A">>), Num(2), Num(5))>>))]
      [] text = << >> -> [threw |-> TRUE, err |-> SyntaxError("Unexpected end of JSON input")]
      [] OTHER -> [threw |-> TRUE, err |-> SyntaxError("Unexpected token in JSON")]

(***************************************************************************)
(* State of one invocation of handler(req, res).                           *)
(***************************************************************************)
VARIABLES
    env,            \* module configuration: user, pass, destination (lines 20-22)
    req,            \* the request: method, body as the framework delivers it
    stream,         \* the raw request stream: chunks still to come, and how it ends
    data,           \* getRawBody: the text accumulated so far
    pc,             \* where the invocation is: start, rawBody, verify, send, done, crashed
    source,         \* which input gave the request object: none, parsed, raw
    orderMeta,      \* const { orderMeta, items } = body
    items,
    rawReads,       \* calls of getRawBody
    parses,         \* calls of JSON.parse
    transports,     \* calls of nodemailer.createTransport
    verifyCalls,    \* calls of transporter.verify
    sendCalls,      \* calls of transporter.sendMail
    verifyOutcome,  \* none, resolved, rejected
    sendOutcome,    \* none, resolved, rejected
    sendValue,      \* what sendMail settled with: the info, or the rejection value
    rendered,       \* none, ok, threw: the outcome of buildHtml in this invocation
    mail,           \* the mailOptions handed to sendMail
    headers,        \* res.setHeader: the set of <<name, value>>
    responses,      \* the responses sent: res.status(s).json(b)
    log,            \* console.error / console.warn lines
    rin,            \* input of a direct application of buildHtml
    rout            \* its result

vars ==
    <<env, req, stream, data, pc, source, orderMeta, items, rawReads, parses, transports,
      verifyCalls, sendCalls, verifyOutcome, sendOutcome, sendValue, rendered, mail, headers,
      responses, log, rin, rout>>

NoValue == [t |-> "none"]

user == env.user

pass == env.pass

\* process.env.EMAIL_TO || process.env.SMTP_USER, line 22.
destination == Or(env.to, env.user)

Methods == {"GET", "POST", "PUT"}

EnvValues == {Undef, Str(<< >>), Str(<<"u">>)}

\* Bodies the framework delivers already parsed.
ParsedBodies ==
    {Body(SampleMeta, SampleItems),
     Body(Undef, SampleItems),
     Body(SampleMeta, Undef),
     Body(Null, Arr(<<Str(<<"x">>), Num(3)>>)),
     Body(SampleMeta, Arr(<<Null>>)),
     Body(SampleMeta, Num(5)),
     Body(Str(<<"m">>), Arr(<<Item(Undef, Str(<<"a">>), Num(5))>>)),
     [t |-> "object", note |-> Num(1)],
     Str(<<"a">>)}

\* Bodies for which line 69 falls back to the raw stream.
UnparsedBodies == {Undef, EmptyObj}

ChunkSeqs ==
    {<< >>, <<TextEmptyObject>>, <<<<"{">>, <<"}">>>>, <<TextNull>>, <<TextMalformed>>,
     <<TextOrder>>}

\* What an 'error' event of the stream carries: an Error, its message maybe empty.
StreamErrors == {ErrorObj(Text("aborted")), ErrorObj(Str(<< >>))}

Streams ==
    [chunks : ChunkSeqs, ending : {"end"}, err : {NoValue}]
        \cup [chunks : ChunkSeqs, ending : {"error"}, err : StreamErrors]

ConsumedStream == [chunks |-> << >>, ending |-> "end", err |-> NoValue]

VerifyErrors == {ErrorObj(Text("ECONNREFUSED")), Null}

\* What sendMail resolves with: the provider's info object, which carries the
\* message id nodemailer assigned and the accepted recipients.
Infos ==
    [t : {"info"}, messageId : {Text("<id1@shop>"), Text("<id2@shop>")},
     accepted : {<<"dest">>, <<"dest", "cc">>}]

\* What sendMail may reject with.
SendErrors ==
    {ErrorObj(Text("Invalid login")), ErrorObj(Str(<< >>)), EmptyObj, Text("boom"), Null, Undef}

Idle ==
    /\ data = << >> /\ source = "none" /\ orderMeta = NoValue /\ items = NoValue
    /\ rawReads = 0 /\ parses = 0 /\ transports = 0 /\ verifyCalls = 0 /\ sendCalls = 0
    /\ verifyOutcome = "none" /\ sendOutcome = "none" /\ sendValue = NoValue
    /\ rendered = "none" /\ mail = NoValue /\ headers = {} /\ responses = << >> /\ log = << >>

\* A request arrives: any method, any configuration; the stream of a body the
\* framework has parsed is already consumed.
Init ==
    /\ env \in [user : EnvValues, pass : EnvValues, to : {Undef, Str(<<"d">>)}]
    /\ req \in [method : Methods, body : ParsedBodies \cup UnparsedBodies]
    /\ stream \in (IF req.body \in ParsedBodies THEN {ConsumedStream} ELSE Streams)
    /\ pc = "start"
    /\ Idle
    /\ rin = NoValue /\ rout = NoValue

\* A method test that lets PUT through as well.
IsPostOrPut(method) == method \in {"POST", "PUT"}

\* Line 58.
IsPost(method) == method = "POST"

\* A credentials test that wants both absent: !user && !pass.
BothCredentialsMissing(u, p) == ~Truthy(u) /\ ~Truthy(p)

\* Line 63: !user || !pass.
CredentialsMissing(u, p) == ~Truthy(u) \/ ~Truthy(p)

\* A body test without the key count: req.body ? req.body : ...
UsesAnyBody(b) == Truthy(b)

\* Line 69: req.body && Object.keys(req.body).length.
UsesParsedBody(b) == Truthy(b) /\ KeyCount(b) > 0

\* orderMeta?.order_number, line 91.
OptGet(v, name) == IF CanRead(v) THEN Get(v, name) ELSE Undef

\* console.error / console.warn with one argument after the text.
LogLine(level, text, arg) == [level |-> level, text |-> text, arg |-> arg]

Response(status, body) == [status |-> status, body |-> body]

\* The catch block, lines 103-106, entered with the log l: err.message of a
\* null or undefined err throws inside the block and the handler's promise
\* rejects with no response sent.
Catch(l, err) ==
    /\ log' = Append(l, LogLine("error", "api/send-email error", err))
    /\ IF CanRead(err)
       THEN /\ responses' =
                Append(responses,
                       Response(500, [error |-> Or(Get(err, "message"), Text("send failed"))]))
            /\ pc' = "done"
       ELSE /\ responses' = responses
            /\ pc' = "crashed"

\* Lines 70-84, with the request object obtained from src: destructure,
\* create the transport, call verify and await it.
Destructure(body, src) ==
    /\ source' = src
    /\ IF CanRead(body)
       THEN /\ orderMeta' = Get(body, "orderMeta")
            /\ items' = Get(body, "items")
            /\ transports' = transports + 1
            /\ verifyCalls' = verifyCalls + 1
            /\ pc' = "verify"
            /\ UNCHANGED <<responses, log>>
       ELSE /\ Catch(log, TypeError("Cannot destructure property 'orderMeta' of 'body'"))
            /\ UNCHANGED <<orderMeta, items, transports, verifyCalls>>

\* Lines 58-61.
MethodNotAllowed ==
    /\ pc = "start"
    /\ ~IsPost(req.method)
    /\ headers' = headers \cup {<<"Allow", "POST">>}
    /\ responses' = Append(responses, Response(405, [error |-> Text("Method not allowed")]))
    /\ pc' = "done"
    /\ UNCHANGED <<env, req, stream, data, source, orderMeta, items, rawReads, parses,
                   transports, verifyCalls, sendCalls, verifyOutcome, sendOutcome, sendValue,
                   rendered, mail, log, rin, rout>>

\* Lines 63-66.
CredentialsNotConfigured ==
    /\ pc = "start"
    /\ IsPost(req.method)
    /\ CredentialsMissing(user, pass)
    /\ log' = Append(log, LogLine("error", "SMTP credentials not configured", NoValue))
    /\ responses' =
           Append(responses, Response(500, [error |-> Text("SMTP credentials not configured")]))
    /\ pc' = "done"
    /\ UNCHANGED <<env, req, stream, data, source, orderMeta, items, rawReads, parses,
                   transports, verifyCalls, sendCalls, verifyOutcome, sendOutcome, sendValue,
                   rendered, mail, headers, rin, rout>>

\* Line 69, first branch, then lines 70-84.
UseParsedBody ==
    /\ pc = "start"
    /\ IsPost(req.method)
    /\ ~CredentialsMissing(user, pass)
    /\ UsesParsedBody(req.body)
    /\ Destructure(req.body, "parsed")
    /\ UNCHANGED <<env, req, stream, data, rawReads, parses, sendCalls, verifyOutcome,
                   sendOutcome, sendValue, rendered, mail, headers, rin, rout>>

\* Line 69, second branch: getRawBody(req) is called and awaited (lines 110-113).
ReadRawBody ==
    /\ pc = "start"
    /\ IsPost(req.method)
    /\ ~CredentialsMissing(user, pass)
    /\ ~UsesParsedBody(req.body)
    /\ rawReads' = rawReads + 1
    /\ data' = << >>
    /\ pc' = "rawBody"
    /\ UNCHANGED <<env, req, stream, source, orderMeta, items, parses, transports, verifyCalls,
                   sendCalls, verifyOutcome, sendOutcome, sendValue, rendered, mail, headers,
                   responses, log, rin, rout>>

\* Line 113: a 'data' event, data += chunk.
StreamData ==
    /\ pc = "rawBody"
    /\ stream.chunks # << >>
    /\ data' = data \o Head(stream.chunks)
    /\ stream' = [stream EXCEPT !.chunks = Tail(@)]
    /\ UNCHANGED <<env, req, pc, source, orderMeta, items, rawReads, parses, transports,
                   verifyCalls, sendCalls, verifyOutcome, sendOutcome, sendValue, rendered, mail,
                   headers, responses, log, rin, rout>>

\* Line 114: the 'end' event resolves the text; line 69 parses it, then
\* lines 70-84, or the catch block on a SyntaxError.
StreamEnd ==
    /\ pc = "rawBody"
    /\ stream.chunks = << >>
    /\ stream.ending = "end"
    /\ parses' = parses + 1
    /\ LET r == JSONparse(data)
       IN IF r.threw
          THEN /\ Catch(log, r.err)
               /\ UNCHANGED <<source, orderMeta, items, transports, verifyCalls>>
          ELSE Destructure(r.value, "raw")
    /\ UNCHANGED <<env, req, stream, data, rawReads, sendCalls, verifyOutcome, sendOutcome,
                   sendValue, rendered, mail, headers, rin, rout>>

\* Line 115: an 'error' event rejects getRawBody; the catch block runs.
StreamError ==
    /\ pc = "rawBody"
    /\ stream.ending = "error"
    /\ Catch(log, stream.err)
    /\ UNCHANGED <<env, req, stream, data, source, orderMeta, items, rawReads, parses,
                   transports, verifyCalls, sendCalls, verifyOutcome, sendOutcome, sendValue,
                   rendered, mail, headers, rin, rout>>

\* Lines 90-100 with the log l: render, build mailOptions, call sendMail and
\* await it; a TypeError of buildHtml goes to the catch block.
RenderAndSend(l) ==
    LET r == buildHtml(Or(orderMeta, EmptyObj), Or(items, Arr(<< >>)))
    IN IF r.threw
       THEN /\ rendered' = "threw"
            /\ Catch(l, r.err)
            /\ UNCHANGED <<mail, sendCalls>>
       ELSE /\ rendered' = "ok"
            /\ mail' = [from |-> user, to |-> destination,
                        subject |-> ToStr(Or(OptGet(orderMeta, "order_number"), Str(<< >>))),
                        html |-> r.html]
            /\ sendCalls' = sendCalls + 1
            /\ pc' = "send"
            /\ log' = l
            /\ UNCHANGED responses

\* Line 84 resolves.
VerifyResolves ==
    /\ pc = "verify"
    /\ verifyOutcome' = "resolved"
    /\ RenderAndSend(log)
    /\ UNCHANGED <<env, req, stream, data, source, orderMeta, items, rawReads, parses,
                   transports, verifyCalls, sendOutcome, sendValue, headers, rin, rout>>

\* Lines 85-88: verify rejects, a warning is logged and the handler goes on.
VerifyRejects ==
    /\ pc = "verify"
    /\ \E verifyErr \in VerifyErrors :
          /\ verifyOutcome' = "rejected"
          /\ RenderAndSend(Append(log, LogLine("warn", "SMTP verify warning:",
                                                IF Truthy(verifyErr)
                                                THEN Get(verifyErr, "message")
                                                ELSE verifyErr)))
    /\ UNCHANGED <<env, req, stream, data, source, orderMeta, items, rawReads, parses,
                   transports, verifyCalls, sendOutcome, sendValue, headers, rin, rout>>

\* Lines 100-102: sendMail resolves with the provider's info.
SendResolves ==
    /\ pc = "send"
    /\ \E info \in Infos :
          /\ sendOutcome' = "resolved"
          /\ sendValue' = info
          /\ responses' =
                 Append(responses,
                        Response(200, [ok |-> TRUE, messageId |-> info.messageId,
                                       accepted |-> info.accepted]))
    /\ pc' = "done"
    /\ UNCHANGED <<env, req, stream, data, source, orderMeta, items, rawReads, parses,
                   transports, verifyCalls, sendCalls, verifyOutcome, rendered, mail, headers,
                   log, rin, rout>>

\* Line 100 rejects: the catch block, lines 103-106.
SendRejects ==
    /\ pc = "send"
    /\ \E err \in SendErrors :
          /\ sendOutcome' = "rejected"
          /\ sendValue' = err
          /\ Catch(log, err)
    /\ UNCHANGED <<env, req, stream, data, source, orderMeta, items, rawReads, parses,
                   transports, verifyCalls, sendCalls, verifyOutcome, rendered, mail, headers,
                   rin, rout>>

Next ==
    \/ MethodNotAllowed
    \/ CredentialsNotConfigured
    \/ UseParsedBody
    \/ ReadRawBody
    \/ StreamData
    \/ StreamEnd
    \/ StreamError
    \/ VerifyResolves
    \/ VerifyRejects
    \/ SendResolves
    \/ SendRejects

Spec == Init /\ [][Next]_vars

(***************************************************************************)
(* buildHtml applied directly to bounded inputs.  The handler passes       *)
(* orderMeta || {} and items || [] (line 90), so orderMeta is truthy and   *)
(* items is truthy or an array.                                            *)
(***************************************************************************)
Alphabet == {"a", "&", "<", ">", "\"", "'"}

RECURSIVE StringsUpTo(_)
StringsUpTo(n) ==
    IF n = 0 THEN {<< >>}
    ELSE LET shorter == StringsUpTo(n - 1)
         IN shorter \cup {Append(s, c) : s \in {x \in shorter : Len(x) = n - 1}, c \in Alphabet}

Strings == {Str(s) : s \in StringsUpTo(MaxStrLen)}

TitleValues == {Undef, Str(<<"<">>)}

QtyValues == {Undef, Num(0), Num(2), Str(<<"2">>), Str(<<"a">>)}

PriceValues == {Undef, Num(3), Str(<<"3">>), Str(<<"a">>)}

Entries ==
    {Item(ti, q, p) : ti \in TitleValues, q \in QtyValues, p \in PriceValues}
        \cup {Null, Str(<<"x">>), Num(7)}

RECURSIVE ListsUpTo(_)
ListsUpTo(n) ==
    IF n = 0 THEN {<< >>}
    ELSE LET shorter == ListsUpTo(n - 1)
         IN shorter \cup {Append(l, e) : l \in {x \in shorter : Len(x) = n - 1}, e \in Entries}

MetaFields == {"order_number", "order_name", "phone", "shipping_address", "id"}

ItemFields == {"title", "qty", "price"}

\* An order whose field f alone carries the value v.
MetaWith(f, v) == [k \in {"t", f} |-> IF k = "t" THEN "meta" ELSE v]

ItemWith(f, v) == [k \in {"t", f} |-> IF k = "t" THEN "item" ELSE v]

ScriptTitle == Str(<<"<", "s", "c", "r", "i", "p", "t", ">">>)

RenderInputs ==
    {[orderMeta |-> SampleMeta, items |-> Arr(<<Item(ScriptTitle, Num(1), Num(5))>>)]} \cup
    {[orderMeta |-> EmptyObj, items |-> Arr(l)] : l \in ListsUpTo(MaxItems)}
        \cup {[orderMeta |-> MetaWith(f, v), items |-> SampleItems] :
                 f \in MetaFields, v \in Strings \cup {Num(42), Null}}
        \cup {[orderMeta |-> SampleMeta, items |-> Arr(<<ItemWith(f, v)>>)] :
                 f \in ItemFields, v \in Strings}
        \cup {[orderMeta |-> m, items |-> SampleItems] : m \in {EmptyObj, Str(<<"m">>), Num(1)}}

RenderInit ==
    /\ env = [user |-> Str(<<"u">>), pass |-> Str(<<"u">>), to |-> Undef]
    /\ req = [method |-> "POST", body |-> Undef]
    /\ stream = ConsumedStream
    /\ pc = "render"
    /\ Idle
    /\ rin \in RenderInputs
    /\ rout = NoValue

\* html = buildHtml(orderMeta, items)
Render ==
    /\ pc = "render"
    /\ rout' = buildHtml(rin.orderMeta, rin.items)
    /\ pc' = "rendered"
    /\ UNCHANGED <<env, req, stream, data, source, orderMeta, items, rawReads, parses,
                   transports, verifyCalls, sendCalls, verifyOutcome, sendOutcome, sendValue,
                   rendered, mail, headers, responses, log, rin>>

RenderNext == Render

SpecRender == RenderInit /\ [][RenderNext]_vars

(***************************************************************************)
(* The claims.                                                             *)
(***************************************************************************)
Terminated == pc \in {"done", "crashed"}

NothingProcessed ==
    /\ rawReads = 0 /\ parses = 0 /\ transports = 0 /\ verifyCalls = 0 /\ sendCalls = 0
    /\ source = "none" /\ rendered = "none" /\ data = << >>

Absent(v) == v \in {Undef, Str(<< >>)}

Responded(status) == Len(responses) = 1 /\ responses[1].status = status

\* C1: a request whose method is not POST is answered 405 with the header
\* Allow: POST and the body {error: 'Method not allowed'}, and nothing else
\* happens: no body read or parsed, no transport, no verify, no sendMail.
C1_NonPostIs405 ==
    req.method # "POST" =>
        /\ pc \in {"start", "done"}
        /\ NothingProcessed
        /\ pc = "done" =>
              /\ responses = <<Response(405, [error |-> Text("Method not allowed")])>>
              /\ headers = {<<"Allow", "POST">>}

C1_Witness ==
    /\ pc = "done" /\ req.method = "PUT" /\ req.body = Body(SampleMeta, SampleItems)
    /\ ~Absent(env.user) /\ ~Absent(env.pass)
    /\ Responded(405)

\* C2: a POST with the SMTP user or pass absent or empty is answered 500
\* {error: 'SMTP credentials not configured'} whatever the body, and the raw
\* body is not read and neither verify nor sendMail is called.
C2_NoCredentialsIs500 ==
    (req.method = "POST" /\ (Absent(env.user) \/ Absent(env.pass))) =>
        /\ pc \in {"start", "done"}
        /\ NothingProcessed
        /\ headers = {}
        /\ pc = "done" =>
              responses = <<Response(500, [error |-> Text("SMTP credentials not configured")])>>

C2_Witness ==
    /\ pc = "done" /\ req.method = "POST" /\ req.body = Body(SampleMeta, SampleItems)
    /\ ~Absent(env.user) /\ Absent(env.pass)
    /\ Responded(500)

\* C3: when verify rejects and the body parses and renders, sendMail is still
\* called, and the response is 200 exactly when sendMail resolves and 500
\* exactly when it rejects.
C3_VerifyFailureNonFatal ==
    (Terminated /\ verifyOutcome = "rejected" /\ rendered = "ok") =>
        /\ sendCalls = 1
        /\ Responded(200) <=> sendOutcome = "resolved"
        /\ Responded(500) <=> sendOutcome = "rejected"

\* The message of a failure value, when it has a non-empty one.
HasMessage(err) == CanRead(err) /\ Truthy(Get(err, "message"))

\* C4: a 200 response follows exactly one successful sendMail and carries
\* {ok: true, messageId, accepted} of the provider's info, the messageId not
\* empty; when sendMail fails the response is 500 with the failure's message
\* in its error field, for every failure value.
C4_ResponseReflectsSend ==
    /\ (\E k \in 1..Len(responses) : responses[k].status = 200) =>
          /\ sendCalls = 1 /\ sendOutcome = "resolved" /\ Len(responses) = 1
          /\ responses[1].body =
                 [ok |-> TRUE, messageId |-> sendValue.messageId, accepted |-> sendValue.accepted]
          /\ Truthy(responses[1].body.messageId)
    /\ sendOutcome = "rejected" =>
          /\ Responded(500)
          /\ HasMessage(sendValue) => responses[1].body.error = sendValue.message

\* What the claim counts for a quantity and a price: the number itself, the
\* value of a numeric string, and the default for a missing or invalid one.
\* A quantity of 0 counts as zeroAs, so that either reading of it is allowed.
IsNumeric(v) == v.t = "string" /\ Len(v.s) > 0 /\ \A k \in 1..Len(v.s) : IsDigit(v.s[k])

ClaimNumber(v, default, zeroAs) ==
    CASE v.t = "number" -> IF v.n = 0 THEN zeroAs ELSE v.n
      [] IsNumeric(v) -> CharsToNat(v.s)
      [] OTHER -> default

RECURSIVE ClaimSum(_, _)
ClaimSum(a, zeroAs) ==
    IF Len(a) = 0 THEN 0
    ELSE ClaimNumber(Get(Head(a), "price"), 0, 0) * ClaimNumber(Get(Head(a), "qty"), 1, zeroAs)
             + ClaimSum(Tail(a), zeroAs)

\* C5: the rendered total is the sum over the items of price x qty, a
\* missing or invalid qty counting as 1 and a missing or invalid price as 0,
\* for every item value (numbers, numeric and non-numeric strings).
C5_TotalIsSum ==
    (pc = "rendered" /\ ~rout.threw) =>
        \E zeroAs \in {0, 1} :
            rout.html.total = NatToChars(ClaimSum(rin.items.a, zeroAs)) \o Chars(" XOF")

\* The replacement the claim states, character by character.
ClaimEntity(c) ==
    IF c = "&" THEN <<"&", "a", "m", "p", ";">>
    ELSE IF c = "<" THEN <<"&", "l", "t", ";">>
    ELSE IF c = ">" THEN <<"&", "g", "t", ";">>
    ELSE IF c = "\"" THEN <<"&", "q", "u", "o", "t", ";">>
    ELSE IF c = "'" THEN <<"&", "#", "3", "9", ";">>
    ELSE <<c>>

RECURSIVE ClaimEscaped(_)
ClaimEscaped(s) == IF Len(s) = 0 THEN << >> ELSE ClaimEntity(Head(s)) \o ClaimEscaped(Tail(s))

\* The text a field contributes: its string form, or the default when falsy.
Shown(v, default) == IF Truthy(v) THEN ToStr(v) ELSE default

NoRawMarkup(s) == \A k \in 1..Len(s) : s[k] \notin {"<", ">", "\"", "'"}

Slots(html) ==
    {html.order_number, html.order_name, html.phone, html.shipping_address, html.total, html.id}
        \cup {html.rows[k].title : k \in 1..Len(html.rows)}
        \cup {html.rows[k].qty : k \in 1..Len(html.rows)}
        \cup {html.rows[k].price : k \in 1..Len(html.rows)}

\* C6: every value buildHtml substitutes (order number, client name, phone,
\* address, each item's title, qty and price, the total, the footer id) is
\* escaped exactly once, each of & < > " ' by its entity and every other
\* character unchanged, so no slot holds a raw < > " or ', and the title
\* <script> is rendered &lt;script&gt;.
C6_EveryFieldEscapedOnce ==
    (pc = "rendered" /\ ~rout.threw) =>
        LET h == rout.html
            m == rin.orderMeta
            a == rin.items.a
        IN /\ h.order_number = ClaimEscaped(Shown(Get(m, "order_number"), << >>))
           /\ h.order_name = ClaimEscaped(Shown(Get(m, "order_name"), << >>))
           /\ h.phone = ClaimEscaped(Shown(Get(m, "phone"), << >>))
           /\ h.shipping_address = ClaimEscaped(Shown(Get(m, "shipping_address"), << >>))
           /\ h.id = ClaimEscaped(Shown(Get(m, "id"), << >>))
           /\ h.total = ClaimEscaped(ToStr(Total(rin.items))) \o Chars(" XOF")
           /\ Len(h.rows) = Len(a)
           /\ \A k \in 1..Len(a) :
                 /\ h.rows[k].title = ClaimEscaped(Shown(Get(a[k], "title"), << >>))
                 /\ h.rows[k].qty = ClaimEscaped(Shown(Get(a[k], "qty"), <<"1">>))
                 /\ h.rows[k].price =
                        ClaimEscaped(Shown(Get(a[k], "price"), << >>)) \o Chars(" XOF")
           /\ \A slot \in Slots(h) : NoRawMarkup(slot)
           /\ (Len(a) = 1 /\ Get(a[1], "title") = ScriptTitle) =>
                 h.rows[1].title =
                     <<"&", "l", "t", ";", "s", "c", "r", "i", "p", "t", "&", "g", "t", ";">>

C6_Witness ==
    /\ pc = "rendered" /\ ~rout.threw
    /\ Get(rin.orderMeta, "id") = Str(<<"'", "&">>)
    /\ rout.html.id = <<"&", "#", "3", "9", ";", "&", "a", "m", "p", ";">>

\* A failure of this invocation: of the stream, of JSON.parse, of the
\* destructuring, of buildHtml or of sendMail.
ParseFailed == pc # "start" /\ pc # "rawBody" /\ rawReads = 1 /\ transports = 0

Failed == ParseFailed \/ rendered = "threw" \/ sendOutcome = "rejected"

\* C7: for a POST with credentials, malformed JSON or any exception while
\* parsing, rendering or sending ends in a 500 response with a readable
\* error message; an invocation that answers 500 has sent no email; and on
\* a body-parse failure neither verify nor sendMail is called.
C7_FailuresReportedAs500 ==
    /\ (Terminated /\ Failed) =>
          /\ Responded(500)
          /\ responses[1].body.error.t = "string" /\ Truthy(responses[1].body.error)
    /\ (\E k \in 1..Len(responses) : responses[k].status = 500) => sendOutcome # "resolved"
    /\ ParseFailed => verifyCalls = 0 /\ sendCalls = 0

\* C8: every invocation that has run to its end has sent exactly one
\* response, with status 200, 405 or 500, whatever value a failure threw,
\* and verify and sendMail are each called at most once.
C8_ExactlyOneResponse ==
    /\ Len(responses) <= 1 /\ verifyCalls <= 1 /\ sendCalls <= 1
    /\ Terminated => Len(responses) = 1 /\ responses[1].status \in {200, 405, 500}

\* C9: the raw stream is read if and only if the framework has not parsed
\* the body; an already-parsed object, the empty object included, is used as
\* the request object and the stream is never read; a request object is
\* obtained before rendering.
C9_RawStreamIffUnparsed ==
    (pc # "start" /\ req.method = "POST" /\ ~Absent(env.user) /\ ~Absent(env.pass)) =>
        /\ rawReads > 0 <=> req.body = Undef
        /\ req.body # Undef => source = "parsed"
        /\ rendered # "none" => source # "none"

\* C9, amended: the raw stream is read if and only if req.body is absent or
\* has no keys (the empty object included); a body with at least one key,
\* with or without orderMeta and items, is used as the request object and
\* the stream is never read; a request object is obtained before rendering.
C9_RawStreamIffNoKeys ==
    (pc # "start" /\ req.method = "POST" /\ ~Absent(env.user) /\ ~Absent(env.pass)) =>
        LET keyless == ~Truthy(req.body) \/ KeyCount(req.body) = 0
        IN /\ rawReads = (IF keyless THEN 1 ELSE 0)
           /\ ~keyless => source = "parsed" /\ parses = 0 /\ data = << >>
           /\ keyless => source \in {"none", "raw"}
           /\ rendered # "none" => source # "none"

C9_Witness ==
    /\ pc = "done" /\ req.body = EmptyObj /\ rawReads = 1 /\ source = "raw"
    /\ data = TextOrder /\ Responded(200)

\* C10: rendering never throws on absent order fields or on an items array
\* with non-object entries (strings, numbers, null): each gets a row with the
\* defaults, and the request goes on to a send attempt.
C10_LenientRendering ==
    (verifyOutcome # "none" /\ Or(items, Arr(<< >>)).t = "array") =>
        /\ rendered = "ok"
        /\ sendCalls = 1
        /\ Len(mail.html.rows) = Len(Or(items, Arr(<< >>)).a)

====
